---- MODULE Spec2Model ----
(***************************************************************************)
(* Model of the segmented audio-capture hook (src/hooks/useAudioRecorder.ts)*)
(* and of the transcript-to-record pipeline (src/unnamed/part_000).         *)
(*                                                                          *)
(* The hook runs on a single-threaded event loop: every action below is one *)
(* task of that loop (a call of one of the hook's functions by its user, the*)
(* settlement of getUserMedia, a MediaRecorder event, a timer callback).    *)
(* React state set by a task is rendered before the next task runs, so the  *)
(* isRecording read by startRecording's closure is the current one.         *)
(***************************************************************************)
EXTENDS Integers, Sequences, FiniteSets, TLC

\* ---------------------------------------------------------------- bounds
\* The calls of startRecording() that get past its guard, the calls of
\* stopRecording() and the segment ticks that call requestData(), in all.
MaxOps == 4

CallIds == 1..MaxOps
StopIds == 1..MaxOps

Null == "null"
MicDenied == "Microphone access denied."

\* A Blob handed to ondataavailable: its size in bytes and, when it is not
\* empty, the recorder it comes from and its number among the non-empty blobs
\* of that recorder (the order of capture).
BlobOf(r, k, s) == IF s = 0 THEN [rec |-> 0, n |-> 0, size |-> 0]
                   ELSE [rec |-> r, n |-> k + 1, size |-> s]

RECURSIVE BlobSize(_)
\* new Blob(parts).size: the sum of the parts' sizes
BlobSize(parts) ==
    IF parts = <<>> THEN 0 ELSE Head(parts).size + BlobSize(Tail(parts))

\* What a stopRecording() promise resolves to: null, or a Blob of parts.
NullBlob == [null |-> TRUE, parts |-> <<>>]
AudioBlob(parts) == [null |-> FALSE, parts |-> parts]

VARIABLES
    isRecording,      \* useState(false)
    isPaused,         \* useState(false)
    error,            \* useState<string | null>(null)
    mediaRecorderRef, \* useRef<MediaRecorder | null>: 0 is null, else a recorder id
    audioChunksRef,   \* useRef<Blob[]>
    segmentTimerRef,  \* useRef<interval | null>: 0 is null, else a timer id
    calls,            \* startRecording invocation i: "awaiting" getUserMedia or
                      \* not in flight ("none"), and its onSegment option
    nCalls,           \* startRecording invocations that passed the guard
    streams,          \* stream acquired by invocation i: "live" until its tracks
                      \* are stopped, else "none"
    recorders,        \* MediaRecorder built by invocation i
    nBlobs,           \* segment ticks that called requestData()
    timers,           \* interval set by invocation i: "armed" until cleared,
                      \* else "none"
    timeouts,         \* pending setTimeout(..., 100) callbacks of interval i
    promises,         \* the promise returned by the p-th stopRecording()
    nStops,           \* stopRecording invocations
    lastSegment,      \* the last blob passed to onSegment, and by which interval
    history           \* history variable: "stop:resolved" since a promise of
                      \* stopRecording() resolved, "start:ignored" since a
                      \* startRecording() call returned at its guard, "none"
                      \* at first and since a startRecording() call passed it

recVars == <<isRecording, isPaused, error, mediaRecorderRef, audioChunksRef,
             segmentTimerRef, calls, nCalls, streams, recorders, nBlobs,
             timers, timeouts, promises, nStops, lastSegment, history>>

\* A recorder that does not exist yet, or that is inactive with no task queued
\* and referenced by nothing that can act on it again.
\* `made` counts the non-empty blobs the recorder has produced.
NoRecorder == [state |-> "none", onstop |-> 0, events |-> <<>>, made |-> 0]
NoCall == [pc |-> "none", onSegment |-> FALSE]

\* The operations counted against MaxOps so far.
Ops == nCalls + nStops + nBlobs

RecInit ==
    /\ isRecording = FALSE
    /\ isPaused = FALSE
    /\ error = Null
    /\ mediaRecorderRef = 0
    /\ audioChunksRef = <<>>
    /\ segmentTimerRef = 0
    /\ calls = [i \in CallIds |-> NoCall]
    /\ nCalls = 0
    /\ streams = [i \in CallIds |-> "none"]
    /\ recorders = [i \in CallIds |-> NoRecorder]
    /\ nBlobs = 0
    /\ timers = [i \in CallIds |-> "none"]
    /\ timeouts = [i \in CallIds |-> 0]
    /\ promises = [p \in StopIds |-> [status |-> "none", value |-> NullBlob]]
    /\ nStops = 0
    /\ lastSegment = [timer |-> 0, blob |-> <<>>]
    /\ history = "none"

\* ------------------------------------------------------------ startRecording

\* Mutant of StartGuard: the guard tests the isRecording flag alone.
StartGuardFlagOnly == isRecording

\* `if (mediaRecorderRef.current || isRecording) return;`
StartGuard == mediaRecorderRef # 0 \/ isRecording

\* startRecording(options), up to its first await (getUserMedia).
startRecording(onSegment) ==
    /\ error' = Null
    /\ history' = IF StartGuard THEN "start:ignored" ELSE "none"
    /\ IF StartGuard
       THEN UNCHANGED <<calls, nCalls>>
       ELSE /\ Ops < MaxOps
            /\ nCalls' = nCalls + 1
            /\ calls' = [calls EXCEPT ![nCalls + 1] =
                            [pc |-> "awaiting", onSegment |-> onSegment]]
    /\ UNCHANGED <<isRecording, isPaused, mediaRecorderRef, audioChunksRef,
                   segmentTimerRef, streams, recorders, nBlobs, timers,
                   timeouts, promises, nStops, lastSegment>>

\* The catch block of startRecording.
StartCatch ==
    /\ error' = MicDenied
    /\ isRecording' = FALSE

\* getUserMedia rejects (permission denied, no device): the catch block runs.
getUserMediaRejected(i) ==
    /\ calls[i].pc = "awaiting"
    /\ calls' = [calls EXCEPT ![i] = NoCall]
    /\ StartCatch
    /\ UNCHANGED <<isPaused, mediaRecorderRef, audioChunksRef, segmentTimerRef,
                   nCalls, streams, recorders, nBlobs, timers, timeouts,
                   promises, nStops, lastSegment, history>>

\* What the continuation of startRecording can run into after the stream was
\* acquired: nothing, `new MediaRecorder` throwing, or recorder.start() throwing.
Faults == {"none", "construct", "start"}

\* getUserMedia resolves: the rest of startRecording runs in one task.
getUserMediaResolved(i, fault) ==
    /\ calls[i].pc = "awaiting"
    /\ calls' = [calls EXCEPT ![i] = NoCall]
    /\ streams' = [streams EXCEPT ![i] = "live"]
    /\ IF fault = "construct"
       THEN /\ StartCatch
            /\ UNCHANGED <<isPaused, mediaRecorderRef, audioChunksRef,
                           segmentTimerRef, recorders, timers>>
       ELSE /\ mediaRecorderRef' = i
            /\ audioChunksRef' = <<>>
            /\ IF calls[i].onSegment
               THEN /\ segmentTimerRef' = i
                    /\ timers' = [timers EXCEPT ![i] = "armed"]
               ELSE UNCHANGED <<segmentTimerRef, timers>>
            /\ IF fault = "start"
               THEN /\ recorders' = [recorders EXCEPT ![i] =
                                        [NoRecorder EXCEPT !.state = "inactive"]]
                    /\ StartCatch
                    /\ UNCHANGED isPaused
               ELSE /\ recorders' = [recorders EXCEPT ![i] =
                                        [NoRecorder EXCEPT !.state = "recording"]]
                    /\ isRecording' = TRUE
                    /\ isPaused' = FALSE
                    /\ UNCHANGED error
    /\ UNCHANGED <<nCalls, nBlobs, timeouts, promises, nStops, lastSegment,
                   history>>

\* ------------------------------------------------------------- stopRecording

\* resolve(v) of promise p: settles it once, later calls do nothing.
Resolve(ps, p, v) ==
    IF ps[p].status = "pending"
    THEN [ps EXCEPT ![p] = [status |-> "resolved", value |-> v]]
    ELSE ps

\* `audioBlob.size > 0 ? audioBlob : null`
StopResult(parts) == IF BlobSize(parts) > 0 THEN AudioBlob(parts) ELSE NullBlob

\* cleanupAndResolve of the p-th stopRecording(), whose closure holds recorder
\* r; `parts`, `ps` and `recs` are audioChunksRef.current, the promises and the
\* recorders as the task has left them so far.
cleanupAndResolve(p, r, parts, ps, recs) ==
    /\ streams' = [streams EXCEPT ![r] = "none"]
    /\ mediaRecorderRef' = 0
    /\ audioChunksRef' = <<>>
    /\ isRecording' = FALSE
    /\ isPaused' = FALSE
    /\ promises' = Resolve(ps, p, StopResult(parts))
    /\ history' = IF ps[p].status = "pending" THEN "stop:resolved" ELSE history
    /\ recorders' = [recs EXCEPT ![r] =
                        IF @.events = <<>> THEN NoRecorder ELSE @]

stopRecording ==
    /\ Ops < MaxOps
    /\ nStops' = nStops + 1
    /\ LET p == nStops + 1
           ps == [promises EXCEPT ![p] = [status |-> "pending", value |-> NullBlob]]
           r == mediaRecorderRef
       IN
       /\ IF segmentTimerRef # 0
          THEN /\ timers' = [timers EXCEPT ![segmentTimerRef] = "none"]
               /\ segmentTimerRef' = 0
          ELSE UNCHANGED <<timers, segmentTimerRef>>
       /\ IF r = 0
          THEN /\ promises' = Resolve(ps, p, NullBlob)
               /\ history' = "stop:resolved"
               /\ UNCHANGED <<isRecording, isPaused, mediaRecorderRef,
                              audioChunksRef, streams, recorders>>
          ELSE IF recorders[r].state # "inactive"
          THEN \* recorder.stop(): inactive at once, one task queued that
               \* fires dataavailable with the final blob and then stop
               /\ \E s \in {0, 1} :
                    LET b == BlobOf(r, recorders[r].made, s) IN
                    recorders' = [recorders EXCEPT ![r] =
                        [state |-> "inactive", onstop |-> p,
                         events |-> Append(@.events, [type |-> "stop", blob |-> b]),
                         made |-> @.made + s]]
               /\ promises' = ps
               /\ UNCHANGED <<isRecording, isPaused, mediaRecorderRef,
                              audioChunksRef, streams, history>>
          ELSE cleanupAndResolve(p, r, audioChunksRef, ps,
                                 [recorders EXCEPT ![r].onstop = p])
    /\ UNCHANGED <<error, calls, nCalls, nBlobs, timeouts, lastSegment>>

\* ----------------------------------------------------- MediaRecorder events

\* recorder.ondataavailable
OnDataAvailable(parts, blob) ==
    IF blob.size > 0 THEN Append(parts, blob) ELSE parts

\* The next queued task of recorder r runs: a dataavailable event, or the
\* stop task (dataavailable with the final blob, then onstop).
recorderEvent(r) ==
    /\ recorders[r].events # <<>>
    /\ LET e == Head(recorders[r].events)
           parts == OnDataAvailable(audioChunksRef, e.blob)
           recs == [recorders EXCEPT ![r].events = Tail(@)]
       IN
       IF e.type = "stop"
       THEN cleanupAndResolve(recorders[r].onstop, r, parts, promises, recs)
       ELSE /\ audioChunksRef' = parts
            /\ recorders' = recs
            /\ UNCHANGED <<isRecording, isPaused, mediaRecorderRef, streams,
                           promises, history>>
    /\ UNCHANGED <<error, segmentTimerRef, calls, nCalls, nBlobs, timers,
                   timeouts, nStops, lastSegment>>

\* ------------------------------------------------------------ segment timer

\* The setInterval callback of interval i fires while its recorder records:
\* requestData() queues a dataavailable task, and the 100 ms timeout is set.
\* (A tick while the recorder is paused or inactive does nothing.)
segmentTick(i) ==
    /\ timers[i] = "armed"
    /\ recorders[i].state = "recording"
    /\ Ops < MaxOps
    /\ nBlobs' = nBlobs + 1
    /\ \E s \in {0, 1} :
         LET b == BlobOf(i, recorders[i].made, s) IN
         recorders' = [recorders EXCEPT ![i] =
             [@ EXCEPT !.events = Append(@, [type |-> "data", blob |-> b]),
                       !.made = @ + s]]
    /\ timeouts' = [timeouts EXCEPT ![i] = @ + 1]
    /\ UNCHANGED <<isRecording, isPaused, error, mediaRecorderRef,
                   audioChunksRef, segmentTimerRef, calls, nCalls, streams,
                   timers, promises, nStops, lastSegment, history>>

\* The setTimeout callback set by a tick of interval i.
segmentTimeout(i) ==
    /\ timeouts[i] > 0
    /\ timeouts' = [timeouts EXCEPT ![i] = @ - 1]
    /\ lastSegment' = IF Len(audioChunksRef) > 0
                      THEN [timer |-> i, blob |-> audioChunksRef]
                      ELSE lastSegment
    /\ UNCHANGED <<isRecording, isPaused, error, mediaRecorderRef,
                   audioChunksRef, segmentTimerRef, calls, nCalls, streams,
                   recorders, nBlobs, timers, promises, nStops, history>>

\* ------------------------------------------------------------ pause / resume

\* `mediaRecorderRef.current && mediaRecorderRef.current.state === 'recording'`
CanPause == mediaRecorderRef # 0 /\ recorders[mediaRecorderRef].state = "recording"

\* `mediaRecorderRef.current && mediaRecorderRef.current.state === 'paused'`
CanResume == mediaRecorderRef # 0 /\ recorders[mediaRecorderRef].state = "paused"

\* Mutant of pauseRecording: pausing also cancels the segment interval.
pauseRecordingClearsTimer ==
    /\ IF CanPause
       THEN /\ recorders' = [recorders EXCEPT ![mediaRecorderRef].state = "paused"]
            /\ isPaused' = TRUE
            /\ IF segmentTimerRef # 0
               THEN /\ timers' = [timers EXCEPT ![segmentTimerRef] = "none"]
                    /\ segmentTimerRef' = 0
               ELSE UNCHANGED <<timers, segmentTimerRef>>
       ELSE UNCHANGED <<recorders, isPaused, timers, segmentTimerRef>>
    /\ UNCHANGED <<isRecording, error, mediaRecorderRef, audioChunksRef,
                   calls, nCalls, streams, nBlobs, timeouts, promises, nStops,
                   lastSegment, history>>

pauseRecording ==
    /\ IF CanPause
       THEN /\ recorders' = [recorders EXCEPT ![mediaRecorderRef].state = "paused"]
            /\ isPaused' = TRUE
       ELSE UNCHANGED <<recorders, isPaused>>
    /\ UNCHANGED <<isRecording, error, mediaRecorderRef, audioChunksRef,
                   segmentTimerRef, calls, nCalls, streams, nBlobs, timers,
                   timeouts, promises, nStops, lastSegment, history>>

resumeRecording ==
    /\ IF CanResume
       THEN /\ recorders' = [recorders EXCEPT ![mediaRecorderRef].state = "recording"]
            /\ isPaused' = FALSE
       ELSE UNCHANGED <<recorders, isPaused>>
    /\ UNCHANGED <<isRecording, error, mediaRecorderRef, audioChunksRef,
                   segmentTimerRef, calls, nCalls, streams, nBlobs, timers,
                   timeouts, promises, nStops, lastSegment, history>>

\* ===================================================== the record pipeline
\* src/unnamed/part_000: processAudioSegment, cleanupTranscript,
\* generateSoapNote, generatePrescription and generateClinicalNote. Each is an
\* async function that awaits ai.models.generateContent once per stage; the
\* model runs one top-level call at a time and lets the service answer it.

Undefined == "undefined"
SoapSentinel == "Error generating SOAP note."
PrescriptionSentinel == "Error generating prescription."
NoteSentinel == "Error generating clinical note."

Transcripts == {"", "Doctor: any fever? Patient: um, yes.", "Patient: cough."}
Languages == {"English", "Hindi"}
\* response.text of a free-text stage
ResponseTexts == {"", Undefined, "text A", "text B"}

\* `x || y` on strings
OrElse(x, y) == IF x \in {"", Undefined} THEN y ELSE x

\* What the awaited generateContent call settles to.
Rejected == [kind |-> "rejected", text |-> Undefined]
Fulfilled(t) == [kind |-> "fulfilled", text |-> t]

\* How an async function settles.
Return(v) == [kind |-> "return", text |-> v]
Throw == [kind |-> "throw", text |-> Undefined]
NoResult == [kind |-> "none", text |-> Undefined]

\* ------------------------------------------------------------ JSON.parse
\* A parsed JSON value: its type, the items of an array (each an object, as
\* its set of <<key, type of the value, value>>), or one scalar/object `fields`.
JsonArray(items) == [type |-> "array", items |-> items, fields |-> {}]
JsonObject(fields) == [type |-> "object", items |-> <<>>, fields |-> fields]
JsonNull == [type |-> "null", items |-> <<>>, fields |-> {}]
JsonNumber == [type |-> "number", items |-> <<>>, fields |-> {}]
NotParsed == [type |-> "SyntaxError", items |-> <<>>, fields |-> {}]

Utterance(speaker, text) ==
    JsonObject({<<"speaker", "string", speaker>>, <<"text", "string", text>>})

\* The response texts processAudioSegment is tried on, and JSON.parse of each.
JsonTexts == {
    "[]",
    "[{\"speaker\":\"Doctor\",\"text\":\"any fever?\"},{\"speaker\":\"Patient\",\"text\":\"yes\"}]",
    "[{\"speaker\":\"Nurse\",\"text\":\"next\"}]",
    "[{\"speaker\":\"Patient\"}]",
    "[{\"speaker\":\"Doctor\",\"text\":5}]",
    "{\"error\":\"quota\"}",
    "null",
    "42",
    "Here is the transcript: []",
    "Sorry, I cannot transcribe this." }

JSONParse(t) ==
    CASE t = "[]" -> JsonArray(<<>>)
      [] t = "[{\"speaker\":\"Doctor\",\"text\":\"any fever?\"},{\"speaker\":\"Patient\",\"text\":\"yes\"}]"
           -> JsonArray(<<Utterance("Doctor", "any fever?").fields,
                          Utterance("Patient", "yes").fields>>)
      [] t = "[{\"speaker\":\"Nurse\",\"text\":\"next\"}]"
           -> JsonArray(<<Utterance("Nurse", "next").fields>>)
      [] t = "[{\"speaker\":\"Patient\"}]"
           -> JsonArray(<<{<<"speaker", "string", "Patient">>}>>)
      [] t = "[{\"speaker\":\"Doctor\",\"text\":5}]"
           -> JsonArray(<<{<<"speaker", "string", "Doctor">>, <<"text", "number", "5">>}>>)
      [] t = "{\"error\":\"quota\"}"
           -> JsonObject({<<"error", "string", "quota">>})
      [] t = "null" -> JsonNull
      [] t = "42" -> JsonNumber
      [] OTHER -> NotParsed

\* ------------------------------------------------------------ the stages

\* Mutant of TryCatch: the error is not caught.
TryCatchRethrows(body, fallback) == body

\* `try { body } catch (error) { return fallback }`: what the function
\* settles to when its try block settled as `body`.
TryCatch(body, fallback) ==
    IF body.kind = "throw" THEN Return(fallback) ELSE body

\* `const response = await ai.models.generateContent(...)` followed by
\* `return response.text || fallback`: a rejected call throws at the await.
AwaitText(resp, fallback) ==
    IF resp.kind = "rejected" THEN Throw ELSE Return(OrElse(resp.text, fallback))

\* processAudioSegment, given what its generateContent call settles to:
\* `return JSON.parse(response.text || '[]')`, and `return null` from the
\* catch, which a rejected call and a SyntaxError of JSON.parse both reach.
processAudioSegment(resp) ==
    IF resp.kind = "rejected" THEN JsonNull
    ELSE LET v == JSONParse(OrElse(resp.text, "[]")) IN
         IF v = NotParsed THEN JsonNull ELSE v

\* Mutant of cleanupTranscript: a failed cleanup yields empty text.
cleanupTranscriptFailClosed(t, resp) == TryCatch(AwaitText(resp, ""), "")

\* cleanupTranscript: `return response.text || transcript`, catch: transcript
cleanupTranscript(t, resp) == TryCatch(AwaitText(resp, t), t)

\* generateSoapNote: `return response.text || ''`, catch: the sentinel
generateSoapNote(resp) == TryCatch(AwaitText(resp, ""), SoapSentinel)

\* Mutant of generatePrescription: the catch returns empty text, like the
\* try block's fallback.
generatePrescriptionSilent(resp) == TryCatch(AwaitText(resp, ""), "")

\* generatePrescription: `return response.text || ''`, catch: the sentinel
generatePrescription(resp) ==
    TryCatch(AwaitText(resp, ""), PrescriptionSentinel)

\* Mutant of Compose: the prescription comes first.
ComposePlanFirst(soap, rx) == rx \o "\n\n" \o soap

\* `${soapNote}\n\n${prescription}`
Compose(soap, rx) == soap \o "\n\n" \o rx

VARIABLES
    running,            \* the top-level function being run, or "none"
    awaiting,           \* the stage whose generateContent call is awaited
    transcript,         \* argument of the running call
    language,           \* argument of the running call
    cleanedTranscript,  \* local of generateClinicalNote
    soapNote,           \* local of generateClinicalNote
    requests,           \* the requests the running call has sent to the service
    result,             \* how the running call settled (text functions)
    utterances          \* what processAudioSegment returned

pipeVars == <<running, awaiting, transcript, language, cleanedTranscript,
              soapNote, requests, result, utterances>>

PipeInit ==
    /\ running = "none"
    /\ awaiting = "none"
    /\ transcript = ""
    /\ language = "English"
    /\ cleanedTranscript = Undefined
    /\ soapNote = Undefined
    /\ requests = <<>>
    /\ result = NoResult
    /\ utterances = JsonNull

\* A generateContent request: the stage's system instruction (named by the
\* stage and the language it interpolates) and the `contents`.
Request(stage, lang, contents) ==
    [stage |-> stage, language |-> lang, contents |-> contents]

\* A top-level call of fn(t, lang) runs up to its first await.
Begin(fn, stage, t, lang, contents) ==
    /\ awaiting = "none"
    /\ running' = fn
    /\ awaiting' = stage
    /\ transcript' = t
    /\ language' = lang
    /\ cleanedTranscript' = Undefined
    /\ soapNote' = Undefined
    /\ requests' = <<Request(stage, lang, contents)>>
    /\ result' = NoResult
    /\ utterances' = JsonNull

callProcessAudioSegment(lang) ==
    Begin("processAudioSegment", "transcribe", "", lang,
          "Transcribe strictly in the native script of " \o lang \o ".")

callCleanupTranscript(t, lang) ==
    Begin("cleanupTranscript", "cleanup", t, lang, "Raw Transcript:\n" \o t)

callGenerateSoapNote(t, lang) ==
    Begin("generateSoapNote", "soap", t, lang, "Cleaned Transcript:\n" \o t)

callGeneratePrescription(t, lang) ==
    Begin("generatePrescription", "prescription", t, lang,
          "Cleaned Transcript:\n" \o t)

callGenerateClinicalNote(t, lang) ==
    Begin("generateClinicalNote", "cleanup", t, lang, "Raw Transcript:\n" \o t)

\* Mutant of generateClinicalNote: a note stage that failed is requested once
\* more.
generateClinicalNoteRetrying(stage, r) ==
    IF r.kind = "throw"
    THEN /\ result' = TryCatch(r, NoteSentinel)
         /\ awaiting' = "none"
         /\ UNCHANGED <<cleanedTranscript, soapNote, requests>>
    ELSE CASE stage = "cleanup" ->
                /\ cleanedTranscript' = r.text
                /\ awaiting' = "soap"
                /\ requests' = Append(requests,
                       Request("soap", language, "Cleaned Transcript:\n" \o r.text))
                /\ UNCHANGED <<soapNote, result>>
           [] stage = "soap" /\ r.text = SoapSentinel /\ Len(requests) = 2 ->
                /\ requests' = Append(requests, requests[2])
                /\ UNCHANGED <<cleanedTranscript, soapNote, result, awaiting>>
           [] stage = "soap" /\ ~(r.text = SoapSentinel /\ Len(requests) = 2) ->
                /\ soapNote' = r.text
                /\ awaiting' = "prescription"
                /\ requests' = Append(requests,
                       Request("prescription", language,
                               "Cleaned Transcript:\n" \o cleanedTranscript))
                /\ UNCHANGED <<cleanedTranscript, result>>
           [] stage = "prescription" ->
                /\ result' = Return(Compose(soapNote, r.text))
                /\ awaiting' = "none"
                /\ UNCHANGED <<cleanedTranscript, soapNote, requests>>

\* Mutant of generateClinicalNote: the prescription stage is given the note
\* instead of the cleaned transcript.
generateClinicalNoteChained(stage, r) ==
    IF r.kind = "throw"
    THEN /\ result' = TryCatch(r, NoteSentinel)
         /\ awaiting' = "none"
         /\ UNCHANGED <<cleanedTranscript, soapNote, requests>>
    ELSE CASE stage = "cleanup" ->
                /\ cleanedTranscript' = r.text
                /\ awaiting' = "soap"
                /\ requests' = Append(requests,
                       Request("soap", language, "Cleaned Transcript:\n" \o r.text))
                /\ UNCHANGED <<soapNote, result>>
           [] stage = "soap" ->
                /\ soapNote' = r.text
                /\ awaiting' = "prescription"
                /\ requests' = Append(requests,
                       Request("prescription", language,
                               "Cleaned Transcript:\n" \o r.text))
                /\ UNCHANGED <<cleanedTranscript, result>>
           [] stage = "prescription" ->
                /\ result' = Return(Compose(soapNote, r.text))
                /\ awaiting' = "none"
                /\ UNCHANGED <<cleanedTranscript, soapNote, requests>>

\* The try block of generateClinicalNote after stage `stage` settled as `r`:
\* a stage that throws lands in the catch, else the next stage is requested
\* or the record is composed.
generateClinicalNote(stage, r) ==
    IF r.kind = "throw"
    THEN /\ result' = TryCatch(r, NoteSentinel)
         /\ awaiting' = "none"
         /\ UNCHANGED <<cleanedTranscript, soapNote, requests>>
    ELSE CASE stage = "cleanup" ->
                /\ cleanedTranscript' = r.text
                /\ awaiting' = "soap"
                /\ requests' = Append(requests,
                       Request("soap", language, "Cleaned Transcript:\n" \o r.text))
                /\ UNCHANGED <<soapNote, result>>
           [] stage = "soap" ->
                /\ soapNote' = r.text
                /\ awaiting' = "prescription"
                /\ requests' = Append(requests,
                       Request("prescription", language,
                               "Cleaned Transcript:\n" \o cleanedTranscript))
                /\ UNCHANGED <<cleanedTranscript, result>>
           [] stage = "prescription" ->
                /\ result' = Return(Compose(soapNote, r.text))
                /\ awaiting' = "none"
                /\ UNCHANGED <<cleanedTranscript, soapNote, requests>>

\* What the awaited stage returns (or throws) when the service settles as resp.
StageResult(stage, resp) ==
    CASE stage = "cleanup" ->
            cleanupTranscript(transcript, resp)
      [] stage = "soap" -> generateSoapNote(resp)
      [] stage = "prescription" -> generatePrescription(resp)

\* The awaited generateContent call settles, with a text or rejected.
serviceResponds(resp) ==
    /\ awaiting # "none"
    /\ IF running = "processAudioSegment"
       THEN /\ utterances' = processAudioSegment(resp)
            /\ result' = Return(Undefined)
            /\ awaiting' = "none"
            /\ UNCHANGED <<cleanedTranscript, soapNote, requests>>
       ELSE /\ UNCHANGED utterances
            /\ IF running = "generateClinicalNote"
               THEN generateClinicalNote(awaiting, StageResult(awaiting, resp))
               ELSE /\ result' = StageResult(awaiting, resp)
                    /\ awaiting' = "none"
                    /\ UNCHANGED <<cleanedTranscript, soapNote, requests>>
    /\ UNCHANGED <<running, transcript, language>>

Responses(stage) ==
    {Rejected} \cup
    {Fulfilled(t) : t \in IF stage = "transcribe"
                          THEN JsonTexts \cup {"", Undefined}
                          ELSE ResponseTexts}

\* ============================================================ specifications

vars == <<recVars, pipeVars>>

Init == RecInit /\ PipeInit

\* The capture hook.
Next ==
    \/ \E o \in BOOLEAN : startRecording(o) /\ UNCHANGED pipeVars
    \/ stopRecording /\ UNCHANGED pipeVars
    \/ \E i \in CallIds, f \in Faults :
          getUserMediaResolved(i, f) /\ UNCHANGED pipeVars
    \/ \E i \in CallIds : getUserMediaRejected(i) /\ UNCHANGED pipeVars
    \/ \E r \in CallIds : recorderEvent(r) /\ UNCHANGED pipeVars
    \/ \E i \in CallIds : segmentTick(i) /\ UNCHANGED pipeVars
    \/ \E i \in CallIds : segmentTimeout(i) /\ UNCHANGED pipeVars
    \/ pauseRecording /\ UNCHANGED pipeVars
    \/ resumeRecording /\ UNCHANGED pipeVars

Spec == Init /\ [][Next]_vars

\* The capture hook on an event loop that runs every queued task: a task a
\* recorder has queued is eventually run.
FairSpec ==
    Spec /\ \A r \in CallIds : WF_vars(recorderEvent(r) /\ UNCHANGED pipeVars)

\* The record pipeline.
PipeNext ==
    \/ \E l \in Languages : callProcessAudioSegment(l) /\ UNCHANGED recVars
    \/ \E t \in Transcripts, l \in Languages :
          callCleanupTranscript(t, l) /\ UNCHANGED recVars
    \/ \E t \in Transcripts, l \in Languages :
          callGenerateSoapNote(t, l) /\ UNCHANGED recVars
    \/ \E t \in Transcripts, l \in Languages :
          callGeneratePrescription(t, l) /\ UNCHANGED recVars
    \/ \E t \in Transcripts, l \in Languages :
          callGenerateClinicalNote(t, l) /\ UNCHANGED recVars
    \/ \E resp \in Responses(awaiting) :
          serviceResponds(resp) /\ UNCHANGED recVars

PipeSpec == Init /\ [][PipeNext]_vars

\* ================================================================== claims

LiveStreams == {i \in CallIds : streams[i] = "live"}
ArmedTimers == {i \in CallIds : timers[i] = "armed"}

\* The state of the capture, read off the recorder the hook holds.
CaptureState ==
    IF mediaRecorderRef = 0 THEN "Idle"
    ELSE IF recorders[mediaRecorderRef].state = "recording" THEN "Recording"
    ELSE IF recorders[mediaRecorderRef].state = "paused" THEN "Paused"
    ELSE "Stopped"

\* C1: once a promise returned by stopRecording() has resolved, and until
\* startRecording() is called again, no segment timer is armed and no
\* acquired device stream is left unreleased.
C1_StopLeavesNothingHeld ==
    history = "stop:resolved" => ArmedTimers = {} /\ LiveStreams = {}

\* C2: the capture device is held exclusively: at most one acquired and
\* unreleased stream exists and at most one segment timer is armed, in every
\* reachable state.
C2_DeviceHeldExclusively ==
    Cardinality(LiveStreams) <= 1 /\ Cardinality(ArmedTimers) <= 1

\* C3: when device acquisition is denied, startRecording() ends with error
\* set, isRecording false, isPaused unchanged at false, no recorder retained,
\* no segment timer armed, the chunk buffer untouched, and a later
\* startRecording() gets past the guard.
C3_DeniedStartLeavesIdle ==
    [][\A i \in CallIds : getUserMediaRejected(i) =>
          /\ error' # Null
          /\ isRecording' = FALSE
          /\ isPaused' = isPaused /\ isPaused' = FALSE
          /\ mediaRecorderRef' = 0
          /\ segmentTimerRef' = 0 /\ ArmedTimers' = {}
          /\ audioChunksRef' = audioChunksRef
          /\ ~StartGuard']_vars

\* C8: startRecording() called while a capture session is running (Recording
\* or Paused) changes nothing but the error message: no device is acquired,
\* no recorder or timer is created, the chunk buffer and the two flags stay
\* as they are, and the session's recorder, timer and queued events go on.
C8_StartWhileRunningIsNoOp ==
    [][\A o \in BOOLEAN :
          (startRecording(o) /\ CaptureState \in {"Recording", "Paused"}) =>
             UNCHANGED <<isRecording, isPaused, mediaRecorderRef, audioChunksRef,
                         segmentTimerRef, calls, nCalls, streams, recorders,
                         timers, timeouts, promises>>]_vars

\* C8 witness: a startRecording() call was ignored and the session it met is
\* still Paused, with its stream live.
C8_Witness ==
    /\ history = "start:ignored"
    /\ CaptureState = "Paused"
    /\ isRecording /\ isPaused
    /\ streams[mediaRecorderRef] = "live"

RECURSIVE IsPrefix(_, _)
IsPrefix(a, b) ==
    IF a = <<>> THEN TRUE
    ELSE IF b = <<>> THEN FALSE
    ELSE Head(a) = Head(b) /\ IsPrefix(Tail(a), Tail(b))

\* C9: pauseRecording() takes effect only from Recording and
\* resumeRecording() only from Paused, and from any other state each leaves
\* the flags, the recorder, the timer and the chunk buffer unchanged; from
\* Recording pause leads to Paused and from Paused resume leads to Recording;
\* neither releases the device, cancels the timer or touches the buffer, and
\* while the capture stays paused the buffer loses nothing.
C9_PauseResume ==
    [][/\ pauseRecording =>
             IF CaptureState = "Recording"
             THEN /\ CaptureState' = "Paused" /\ isPaused'
                  /\ UNCHANGED <<isRecording, mediaRecorderRef, timers,
                                 segmentTimerRef, audioChunksRef, streams>>
             ELSE UNCHANGED <<isPaused, isRecording, mediaRecorderRef, recorders,
                              timers, segmentTimerRef, audioChunksRef, streams>>
       /\ resumeRecording =>
             IF CaptureState = "Paused"
             THEN /\ CaptureState' = "Recording" /\ ~isPaused'
                  /\ UNCHANGED <<isRecording, mediaRecorderRef, timers,
                                 segmentTimerRef, audioChunksRef, streams>>
             ELSE UNCHANGED <<isPaused, isRecording, mediaRecorderRef, recorders,
                              timers, segmentTimerRef, audioChunksRef, streams>>
       /\ (CaptureState = "Paused" /\ mediaRecorderRef' = mediaRecorderRef) =>
             IsPrefix(audioChunksRef, audioChunksRef')]_vars

\* C9 witness: the capture is Paused after a pause that took effect, with
\* audio in the buffer, the stream live and the timer armed.
C9_Witness ==
    /\ CaptureState = "Paused" /\ isPaused /\ isRecording
    /\ audioChunksRef # <<>>
    /\ streams[mediaRecorderRef] = "live"
    /\ timers[mediaRecorderRef] = "armed"

\* Every non-empty blob recorder r has produced, in the order of capture.
AllAudio(r) == [k \in 1..recorders[r].made |-> BlobOf(r, k - 1, 1)]

\* The recorder of the session the p-th stopRecording() stops, at a step
\* that resolves its promise (0: there is none).
StoppedRecorder(p) ==
    IF p = nStops + 1 THEN mediaRecorderRef
    ELSE IF \E r \in CallIds : recorders[r].onstop = p
    THEN CHOOSE r \in CallIds : recorders[r].onstop = p
    ELSE 0

\* C10: a stopRecording() promise resolves to null when no audio was
\* captured (no recorder, or zero bytes), never to an empty blob, and
\* otherwise to the concatenation, in capture order, of every chunk of the
\* session, the final chunk of the stop included.
C10_StopResult ==
    [][\A p \in StopIds :
          (promises[p].status # "resolved" /\ promises'[p].status = "resolved") =>
             LET r == StoppedRecorder(p)
                 v == promises'[p].value
             IN  /\ ~v.null => v.parts # <<>>
                 /\ IF r = 0 \/ recorders[r].made = 0
                    THEN v = NullBlob
                    ELSE v = AudioBlob(AllAudio(r))]_vars

\* C11: every segment passed to onSegment by a session's interval is the
\* in-order concatenation of all the chunks the session's recorder has
\* captured so far, the data requested at the tick included, and extends the
\* segment the session emitted before; the blob a stopRecording() promise
\* resolves to extends the segments emitted in the session it stops.
C11_SegmentsCumulative ==
    [][/\ \A i \in CallIds :
            (segmentTimeout(i) /\ Len(audioChunksRef) > 0) =>
               /\ lastSegment'.blob = AllAudio(i)
               /\ lastSegment.timer = i =>
                      IsPrefix(lastSegment.blob, lastSegment'.blob)
       /\ \A p \in StopIds :
            (/\ promises[p].status # "resolved"
             /\ promises'[p].status = "resolved"
             /\ StoppedRecorder(p) # 0
             /\ lastSegment.timer = StoppedRecorder(p)) =>
               IsPrefix(lastSegment.blob, promises'[p].value.parts)]_vars

\* C16: when startRecording() fails after the stream was acquired (the
\* recorder's construction or its start throws), it ends with that stream
\* released, without an armed timer or a retained recorder of its own, and,
\* if no session was running, with the guard open to a later startRecording().
C16_FailedStartReleasesDevice ==
    [][\A i \in CallIds : \A fault \in {"construct", "start"} :
          getUserMediaResolved(i, fault) =>
             /\ streams'[i] = "none"
             /\ timers'[i] = "none" /\ segmentTimerRef' # i
             /\ mediaRecorderRef' # i
             /\ (mediaRecorderRef = 0 /\ ~isRecording) => ~StartGuard']_vars

\* C17: every promise returned by stopRecording() is eventually resolved,
\* given that the recorder delivers its queued events.
C17_StopEventuallyResolves ==
    \A p \in StopIds :
        (promises[p].status = "pending") ~> (promises[p].status = "resolved")

\* C18: once stopRecording() has stopped a session's recorder, the timeout of
\* a tick that fired before the stop does not call onSegment.
C18_NoSegmentAfterStop ==
    [][\A i \in CallIds :
          (segmentTimeout(i) /\ recorders[i].state \notin {"recording", "paused"}) =>
             Len(audioChunksRef) = 0]_vars

\* C19: while the capture is and stays Paused the chunk buffer does not grow
\* and no timeout of the session's interval calls onSegment.
C19_PausedCollectsNothing ==
    [][(/\ CaptureState = "Paused"
        /\ mediaRecorderRef' = mediaRecorderRef
        /\ CaptureState' = "Paused") =>
          /\ Len(audioChunksRef') <= Len(audioChunksRef)
          /\ segmentTimeout(mediaRecorderRef) => Len(audioChunksRef) = 0]_vars

\* The chunks of `parts` all come from recorder r.
AllFrom(parts, r) == \A k \in 1..Len(parts) : parts[k].rec = r

\* C20: a segment emitted by a session's interval and the blob a
\* stopRecording() promise resolves to hold chunks of that session's recorder
\* alone, and an event of a recorder other than the one the hook holds leaves
\* the held recorder's reference, the isRecording flag and the chunks in the
\* buffer as they are.
C20_SessionsIsolated ==
    [][/\ \A i \in CallIds :
            (segmentTimeout(i) /\ Len(audioChunksRef) > 0) =>
               AllFrom(audioChunksRef, i)
       /\ \A p \in StopIds :
            (/\ promises[p].status # "resolved"
             /\ promises'[p].status = "resolved"
             /\ StoppedRecorder(p) # 0) =>
               AllFrom(promises'[p].value.parts, StoppedRecorder(p))
       /\ \A r \in CallIds :
            (recorderEvent(r) /\ mediaRecorderRef # 0 /\ mediaRecorderRef # r) =>
               /\ mediaRecorderRef' = mediaRecorderRef
               /\ isRecording' = isRecording
               /\ audioChunksRef' = audioChunksRef]_vars

\* C21: in every reachable state the two flags encode a state of the capture
\* state machine: isPaused is true only while isRecording is true.
C21_FlagsLegal == isPaused => isRecording

\* ------------------------------------------------------------ the pipeline

\* C4: generateClinicalNote never raises: whatever the three service calls
\* settle to, the call settles by returning a string.
C4_NeverRaises ==
    running = "generateClinicalNote" =>
        /\ result.kind # "throw"
        /\ awaiting = "none" => result.kind = "return" /\ result.text # Undefined

\* C4 witness: a run in which all three service calls were rejected returned.
C4_Witness ==
    /\ running = "generateClinicalNote" /\ awaiting = "none"
    /\ Len(requests) = 3
    /\ result = Return(Compose(SoapSentinel, PrescriptionSentinel))

\* C5: when its service call fails, generateSoapNote (generatePrescription)
\* does not raise and returns its fixed sentinel, whatever the transcript and
\* the language, and never empty text; so it does as a stage of
\* generateClinicalNote.
C5_FailVisible ==
    [][(serviceResponds(Rejected) /\ awaiting \in {"soap", "prescription"}) =>
          LET sentinel == IF awaiting = "soap" THEN SoapSentinel
                          ELSE PrescriptionSentinel
          IN  /\ sentinel # ""
              /\ result'.kind # "throw"
              /\ running \in {"generateSoapNote", "generatePrescription"} =>
                     result' = Return(sentinel)
              /\ (running = "generateClinicalNote" /\ awaiting = "soap") =>
                     soapNote' = sentinel
              /\ (running = "generateClinicalNote" /\ awaiting = "prescription") =>
                     result' = Return(Compose(soapNote, sentinel))]_vars

\* C5 witness: a generatePrescription call returned its sentinel.
C5_Witness ==
    /\ running = "generatePrescription" /\ awaiting = "none"
    /\ result = Return(PrescriptionSentinel)
    /\ transcript # ""

\* The cleanup service call failed: it threw, or it yielded no text.
CleanupFailures == {Rejected, Fulfilled(""), Fulfilled(Undefined)}

\* C6: when the service call of the cleanup stage fails, cleanupTranscript
\* returns its input transcript unchanged and does not raise; inside
\* generateClinicalNote the note and prescription stages are then still
\* requested, each on that original transcript.
C6_FailOpen ==
    [][/\ \A resp \in CleanupFailures :
            (serviceResponds(resp) /\ awaiting = "cleanup") =>
               IF running = "cleanupTranscript"
               THEN result' = Return(transcript)
               ELSE /\ cleanedTranscript' = transcript
                    /\ awaiting' = "soap"
                    /\ requests' = Append(requests,
                          Request("soap", language,
                                  "Cleaned Transcript:\n" \o transcript))
       /\ \A resp \in Responses("soap") :
            (serviceResponds(resp) /\ running = "generateClinicalNote"
               /\ awaiting = "soap") =>
               /\ awaiting' = "prescription"
               /\ requests' = Append(requests,
                     Request("prescription", language,
                             "Cleaned Transcript:\n" \o cleanedTranscript))]_vars

\* C6 witness: a generateClinicalNote run whose cleanup failed has requested
\* the prescription on the original, non-empty transcript.
C6_Witness ==
    /\ running = "generateClinicalNote" /\ awaiting = "prescription"
    /\ transcript # "" /\ cleanedTranscript = transcript
    /\ requests[3].contents = "Cleaned Transcript:\n" \o transcript

\* An item of a parsed array is a well-formed Utterance.
WellFormedUtterance(o) ==
    /\ \E sp \in {"Doctor", "Patient"} : <<"speaker", "string", sp>> \in o
    /\ \E f \in o : f[1] = "text" /\ f[2] = "string"
    /\ \A f \in o : f[1] \in {"speaker", "text"}

\* C7: whatever the service answers, processAudioSegment returns null or a
\* sequence of well-formed Utterances (speaker Doctor or Patient, and a text
\* string).
C7_OnlyWellFormedUtterances ==
    (running = "processAudioSegment" /\ awaiting = "none") =>
        \/ utterances = JsonNull
        \/ /\ utterances.type = "array"
           /\ \A k \in 1..Len(utterances.items) :
                 WellFormedUtterance(utterances.items[k])

\* C12: in a run of generateClinicalNote the note stage is requested only
\* when the cleanup call has settled, and on its output; the prescription
\* stage is requested only when the note call has settled, on the same
\* cleaned transcript as the note stage; the record is composed only when the
\* prescription call has settled too, and not before.
C12_StagesInSequence ==
    [][\A resp \in Responses("cleanup") :
          (serviceResponds(resp) /\ running = "generateClinicalNote") =>
             CASE awaiting = "cleanup" ->
                    /\ Len(requests) = 1
                    /\ requests' = Append(requests,
                          Request("soap", language,
                                  "Cleaned Transcript:\n"
                                     \o cleanupTranscript(transcript, resp).text))
                    /\ result' = NoResult
               [] awaiting = "soap" ->
                    /\ Len(requests) = 2
                    /\ requests' = Append(requests,
                          Request("prescription", language, requests[2].contents))
                    /\ result' = NoResult
               [] awaiting = "prescription" ->
                    /\ Len(requests) = 3
                    /\ requests' = requests
                    /\ result'.kind = "return"]_vars

\* C12 witness: a run whose cleanup changed the transcript has composed its
\* record after three requests, the last two on the cleaned transcript.
C12_Witness ==
    /\ running = "generateClinicalNote" /\ awaiting = "none"
    /\ result.kind = "return"
    /\ cleanedTranscript = "text A" /\ soapNote = "text B"
    /\ Len(requests) = 3
    /\ requests[2].contents = "Cleaned Transcript:\ntext A"
    /\ requests[3].contents = "Cleaned Transcript:\ntext A"

\* C13: for every outcome of the three stages generateClinicalNote returns
\* the output of the note stage, a blank line and the output of the
\* prescription stage, in that order and nothing else; it never returns its
\* own sentinel.
C13_PureConcatenation ==
    [][\A resp \in Responses("soap") :
          (serviceResponds(resp) /\ running = "generateClinicalNote") =>
             /\ awaiting = "soap" => soapNote' = generateSoapNote(resp).text
             /\ awaiting = "prescription" =>
                   result' = Return(soapNote \o "\n\n"
                                       \o generatePrescription(resp).text)
             /\ result' # Return(NoteSentinel)]_vars

\* C13 witness: a run returned a note and a prescription joined by a blank
\* line.
C13_Witness ==
    /\ running = "generateClinicalNote" /\ awaiting = "none"
    /\ soapNote = "text A"
    /\ result = Return("text A\n\ntext B")

\* The service call of a stage gave no content: it failed, or its response
\* has no text.
NoContent == {Rejected, Fulfilled(""), Fulfilled(Undefined)}

\* C14: when the service call of the note stage or of the prescription stage
\* of generateClinicalNote gives no content (an error or an empty response),
\* the record carries that stage's sentinel in the stage's place, and it is
\* never the bare separator.
C14_DegradedRecordDiagnosable ==
    [][\A resp \in NoContent :
          (serviceResponds(resp) /\ running = "generateClinicalNote") =>
             /\ awaiting = "soap" => soapNote' = SoapSentinel
             /\ awaiting = "prescription" =>
                   /\ result' = Return(soapNote \o "\n\n" \o PrescriptionSentinel)
                   /\ result'.text # "\n\n"]_vars

\* The stages of the requests the running call has issued, in order.
StagesRequested == [k \in 1..Len(requests) |-> requests[k].stage]

\* C15: a call of processAudioSegment, cleanupTranscript, generateSoapNote or
\* generatePrescription issues one request, whether the service call succeeds
\* or fails; a run of generateClinicalNote issues one request per stage,
\* three in all, also when an earlier stage failed.
C15_NoRetry ==
    running # "none" =>
        CASE running = "processAudioSegment" -> StagesRequested = <<"transcribe">>
          [] running = "cleanupTranscript" -> StagesRequested = <<"cleanup">>
          [] running = "generateSoapNote" -> StagesRequested = <<"soap">>
          [] running = "generatePrescription" -> StagesRequested = <<"prescription">>
          [] running = "generateClinicalNote" ->
               StagesRequested =
                  CASE awaiting = "cleanup" -> <<"cleanup">>
                    [] awaiting = "soap" -> <<"cleanup", "soap">>
                    [] OTHER -> <<"cleanup", "soap", "prescription">>

\* C15 witness: a run of generateClinicalNote whose note stage failed has
\* ended after three requests.
C15_Witness ==
    /\ running = "generateClinicalNote" /\ awaiting = "none"
    /\ soapNote = SoapSentinel
    /\ result.kind = "return"
    /\ StagesRequested = <<"cleanup", "soap", "prescription">>

====
